---- MODULE Spec2Model ----
(***************************************************************************)
(* django-virtualqueryset: in-memory querysets (filter / exclude /         *)
(* order_by / get / reverse over a result list), the TTL fetch cache of    *)
(* CachedQuerySet, and the querysets loaded from settings and from JSON.   *)
(***************************************************************************)
EXTENDS Integers, Sequences, FiniteSets, TLC

VARIABLES
    memory_cache,   \* CachedQuerySet._memory_cache, the class-level dict
    custom_cache,   \* a dict the caller passes as cache_backend
    now,            \* what time.time() returns
    qs,             \* the queryset the caller holds (the receiver)
    ev,             \* the last call: its arguments and what it returned
    settings,       \* django.conf.settings: the settings defined, by name
    files,          \* the file system: the text of each file, by path
    heap,           \* the list objects alive, by identity: their elements
    querysets,      \* the querysets VirtualManager.get_queryset() has returned
    get_data_calls  \* how often get_data() has been called

\* what belongs to the VirtualManager and the querysets it returned
managerVars == <<heap, querysets, get_data_calls>>

\* what the calls on the in-memory and the cached querysets never touch
envVars == <<settings, files, managerVars>>

vars ==
    <<memory_cache, custom_cache, now, qs, ev, settings, files, heap, querysets,
      get_data_calls>>

\* no VirtualManager in use
NoManager == heap = <<>> /\ querysets = <<>> /\ get_data_calls = 0

(***************************************************************************)
(* Bounds.                                                                 *)
(***************************************************************************)
MaxLen == 2         \* longest result list drawn as a receiver
MaxTime == 3        \* the clock stops advancing here

(***************************************************************************)
(* Python values.  A string is its sequence of code points.                *)
(***************************************************************************)
PyNone == [t |-> "none", s |-> <<>>, n |-> 0]
PyStr(s) == [t |-> "str", s |-> s, n |-> 0]
PyInt(n) == [t |-> "int", s |-> <<>>, n |-> n]
PyBool(b) == [t |-> "bool", s |-> <<>>, n |-> IF b THEN 1 ELSE 0]
PyList(items) == [t |-> "list", s |-> items, n |-> 0]
PyTuple(items) == [t |-> "tuple", s |-> items, n |-> 0]
\* a dict is its items, in the dict's order: << <<key, value>>, ... >>
PyDict(items) == [t |-> "dict", s |-> items, n |-> 0]
\* a pathlib.Path, by its text
PyPath(s) == [t |-> "Path", s |-> s, n |-> 0]
\* a django.db.models.sql.Query, by its order_by
QueryObj(order) == [t |-> "Query", order_by |-> order]
\* a function, by its name
Function(name) == [t |-> "function", name |-> name]

IsNumber(v) == v.t \in {"int", "bool"}

\* bool(v)
Truthy(v) ==
    CASE v.t = "none" -> FALSE
      [] v.t \in {"str", "list", "tuple", "dict"} -> v.s # <<>>
      [] v.t \in {"int", "bool"} -> v.n # 0
      [] OTHER -> TRUE      \* an object with neither __bool__ nor __len__

\* str.lower(), on the ASCII letters
Lower(s) == [i \in 1..Len(s) |-> IF s[i] >= 65 /\ s[i] <= 90 THEN s[i] + 32 ELSE s[i]]

RECURSIVE Digits(_)
Digits(n) == IF n < 10 THEN <<48 + n>> ELSE Digits(n \div 10) \o <<48 + (n % 10)>>

\* str(v)
Str(v) ==
    CASE v.t = "str" -> v.s
      [] v.t = "none" -> <<78, 111, 110, 101>>
      [] v.t = "bool" -> IF v.n = 1 THEN <<84, 114, 117, 101>> ELSE <<70, 97, 108, 115, 101>>
      [] v.t = "int" -> IF v.n < 0 THEN <<45>> \o Digits(0 - v.n) ELSE Digits(v.n)
      [] OTHER -> <<91, 93>>

\* sub in s
IsSubstr(sub, s) ==
    \E i \in 0..(Len(s) - Len(sub)) : SubSeq(s, i + 1, i + Len(sub)) = sub

\* s.startswith(p), s.endswith(p)
StartsWith(s, p) == Len(p) <= Len(s) /\ SubSeq(s, 1, Len(p)) = p
EndsWith(s, p) == Len(p) <= Len(s) /\ SubSeq(s, Len(s) - Len(p) + 1, Len(s)) = p

\* a < b on two strings: code point order, a proper prefix first
RECURSIVE StrLt(_, _)
StrLt(a, b) ==
    IF b = <<>> THEN FALSE
    ELSE IF a = <<>> THEN TRUE
    ELSE IF Head(a) # Head(b) THEN Head(a) < Head(b)
    ELSE StrLt(Tail(a), Tail(b))

\* a == b
PyEq(a, b) ==
    IF IsNumber(a) /\ IsNumber(b) THEN a.n = b.n
    ELSE a.t = b.t /\ a.t \in {"none", "str"} /\ a.s = b.s

\* whether a < b (and >, <=, >=) is defined; otherwise Python raises TypeError
Comparable(a, b) ==
    \/ a.t = "str" /\ b.t = "str"
    \/ IsNumber(a) /\ IsNumber(b)

\* a < b, for Comparable(a, b)
PyLt(a, b) == IF a.t = "str" THEN StrLt(a.s, b.s) ELSE a.n < b.n

(***************************************************************************)
(* The objects a result list can hold.  An object is its identity; two     *)
(* places of a list holding the same identity hold the same object.        *)
(* A field absent from the record is an attribute the object does not have.*)
(***************************************************************************)
ObjAttrs ==
    <<  [name |-> PyStr(<<97>>), rank |-> PyInt(1)],        \* name 'a'
        [name |-> PyStr(<<65>>), rank |-> PyInt(2)],        \* name 'A'
        [name |-> PyStr(<<98>>), rank |-> PyInt(1)],        \* name 'b'
        [name |-> PyNone, rank |-> PyNone],
        [name |-> PyStr(<<>>)],                              \* no rank
        [rank |-> PyInt(2)] >>                               \* no name

Objects == DOMAIN ObjAttrs

\* getattr(obj, attr, default)
getattr(obj, attr, default) ==
    IF attr \in DOMAIN ObjAttrs[obj] THEN ObjAttrs[obj][attr] ELSE default

\* every list over S of length at most n
SeqsUpTo(S, n) == UNION {[1..k -> S] : k \in 0..n}

(***************************************************************************)
(* InMemoryQuerySet.filter.  A keyword is [field, type, value]: the lookup *)
(* string split at its last "__" (type "" when it holds no "__").  What a   *)
(* call returns is [exc, results]: exc is "none", or the exception raised. *)
(***************************************************************************)
Returned(results) == [exc |-> "none", results |-> results]
Raised(exc) == [exc |-> exc, results |-> <<>>]

\* filter._value
_value(obj, attr) == getattr(obj, attr, PyStr(<<>>))

\* fv in value
PyIn(fv, value) ==
    CASE value.t = "list" -> IF \E i \in 1..Len(value.s) : PyEq(value.s[i], fv) THEN "T" ELSE "F"
      [] value.t = "str" /\ fv.t = "str" -> IF IsSubstr(fv.s, value.s) THEN "T" ELSE "F"
      [] OTHER -> "TypeError"

Bool(b) == IF b THEN "T" ELSE "F"

\* fv <op> value for gt, gte, lt, lte
PyCompare(type, fv, value) ==
    IF ~Comparable(fv, value) THEN "TypeError"
    ELSE CASE type = "gt" -> Bool(PyLt(value, fv))
           [] type = "gte" -> Bool(~PyLt(fv, value))
           [] type = "lt" -> Bool(PyLt(fv, value))
           [] OTHER -> Bool(~PyLt(value, fv))

StrLookups == {"icontains", "contains", "startswith", "istartswith", "endswith", "iendswith"}
CmpLookups == {"gt", "gte", "lt", "lte"}
LookupTypes == StrLookups \cup CmpLookups \cup {"exact", "in", "isnull"}

\* The condition of one list comprehension of filter, on one object:
\* "T", "F", or the exception its evaluation raises.
Cond(obj, kw) ==
    LET fv == _value(obj, kw.field)
        value == kw.value
    IN  CASE kw.type = "" -> Bool(PyEq(getattr(obj, kw.field, PyNone), value))
          [] kw.type = "icontains" ->
                IF value.t # "str" THEN "AttributeError"
                ELSE Bool(IsSubstr(Lower(value.s), Lower(Str(fv))))
          [] kw.type = "contains" ->
                IF value.t # "str" THEN "TypeError" ELSE Bool(IsSubstr(value.s, Str(fv)))
          [] kw.type = "exact" -> Bool(PyEq(fv, value))
          [] kw.type = "in" -> PyIn(fv, value)
          [] kw.type \in CmpLookups -> PyCompare(kw.type, fv, value)
          [] kw.type = "isnull" ->
                IF Truthy(value)
                THEN Bool(PyEq(fv, PyNone) \/ PyEq(fv, PyStr(<<>>)))
                ELSE Bool(~(PyEq(fv, PyNone) \/ PyEq(fv, PyStr(<<>>))))
          [] kw.type = "startswith" ->
                IF value.t # "str" THEN "TypeError" ELSE Bool(StartsWith(Str(fv), value.s))
          [] kw.type = "istartswith" ->
                IF value.t # "str" THEN "AttributeError"
                ELSE Bool(StartsWith(Lower(Str(fv)), Lower(value.s)))
          [] kw.type = "endswith" ->
                IF value.t # "str" THEN "TypeError" ELSE Bool(EndsWith(Str(fv), value.s))
          [] kw.type = "iendswith" ->
                IF value.t # "str" THEN "AttributeError"
                ELSE Bool(EndsWith(Lower(Str(fv)), Lower(value.s)))
          [] OTHER -> "T"       \* no branch of filter matches: rslt is left as it is

\* [obj for obj in rslt if Cond(obj)]: the objects are visited in order and the
\* first condition that raises ends the comprehension
Comprehension(rslt, kw) ==
    LET bad == {i \in 1..Len(rslt) : Cond(rslt[i], kw) \notin {"T", "F"}}
    IN  IF bad # {}
        THEN Raised(Cond(rslt[CHOOSE i \in bad : \A j \in bad : i <= j], kw))
        ELSE Returned(SelectSeq(rslt, LAMBDA obj : Cond(obj, kw) = "T"))

\* the loop over kwargs.items() of filter: one comprehension per keyword, each
\* over what the one before left
RECURSIVE FilterLoop(_, _)
FilterLoop(rslt, kwargs) ==
    IF kwargs = <<>> THEN Returned(rslt)
    ELSE LET step == Comprehension(rslt, Head(kwargs))
         IN  IF step.exc # "none" THEN step ELSE FilterLoop(step.results, Tail(kwargs))

(***************************************************************************)
(* Querysets.  What a method returns is [exc, value]: the queryset it      *)
(* returns, or the exception it raises.                                    *)
(***************************************************************************)
NoQS == [cls |-> "none"]
Return(value) == [exc |-> "none", value |-> value]
Raise(exc) == [exc |-> exc, value |-> NoQS]

\* InMemoryQuerySet.__init__: _result_cache = list(data or []); order is the
\* order_by of the Query handed in (empty for a new Query)
InMemoryQuerySet(data, order) ==
    [cls |-> "InMemoryQuerySet", results |-> data, order_by |-> order]

\* the comprehension of exclude, over the ids of the filtered objects
MutExcludeKeepsDuplicates(results, excluded_ids) ==
    LET first(i) == \A j \in 1..(i - 1) : results[j] # results[i]
        keep == {i \in 1..Len(results) : results[i] \notin excluded_ids \/ ~first(i)}
        F[i \in 0..Len(results)] ==
            IF i = 0 THEN <<>>
            ELSE IF i \in keep THEN Append(F[i - 1], results[i]) ELSE F[i - 1]
    IN  F[Len(results)]

NotExcluded(results, excluded_ids) ==
    SelectSeq(results, LAMBDA obj : obj \notin excluded_ids)

(***************************************************************************)
(* InMemoryQuerySet.order_by.  A field is its sequence of tokens, a        *)
(* leading "-" being one: <<"-", "name">> is '-name'.                      *)
(***************************************************************************)
\* order_by.get_field_value
get_field_value(obj, field_name) ==
    LET value == getattr(obj, field_name, PyNone)
    IN  IF value.t = "none" THEN PyStr(<<>>)
        ELSE IF value.t = "str" THEN PyStr(Lower(value.s))
        ELSE value

\* where list.sort puts x among the already sorted: behind every element that
\* does not have to follow it, which keeps equal keys in their order
InsertStable(sorted, x, field_name, reverse) ==
    LET kx == get_field_value(x, field_name)
        before == {i \in 1..Len(sorted) :
                     IF reverse
                     THEN ~PyLt(get_field_value(sorted[i], field_name), kx)
                     ELSE ~PyLt(kx, get_field_value(sorted[i], field_name))}
        p == Cardinality(before)
    IN  SubSeq(sorted, 1, p) \o <<x>> \o SubSeq(sorted, p + 1, Len(sorted))

RECURSIVE SortedStable(_, _, _)
SortedStable(rslt, field_name, reverse) ==
    IF rslt = <<>> THEN <<>>
    ELSE InsertStable(SortedStable(SubSeq(rslt, 1, Len(rslt) - 1), field_name, reverse),
                      rslt[Len(rslt)], field_name, reverse)

\* rslt.sort(key=get_field_value, reverse=reverse): a stable sort, which has to
\* compare two keys of different kinds when the list holds such, and raises
sort(rslt, field_name, reverse) ==
    IF \E i, j \in 1..Len(rslt) :
          /\ i # j
          /\ ~Comparable(get_field_value(rslt[i], field_name),
                         get_field_value(rslt[j], field_name))
    THEN Raised("TypeError")
    ELSE Returned(SortedStable(rslt, field_name, reverse))

\* for field in reversed(fields): ... rslt.sort(...)
RECURSIVE OrderLoop(_, _)
OrderLoop(rslt, fields) ==
    IF fields = <<>> THEN Returned(rslt)
    ELSE LET field == fields[Len(fields)]
             reverse == Head(field) = "-"
             field_name == IF reverse THEN field[2] ELSE field[1]
             step == sort(rslt, field_name, reverse)
         IN  IF step.exc # "none" THEN step
             ELSE OrderLoop(step.results, SubSeq(fields, 1, Len(fields) - 1))

(***************************************************************************)
(* InMemoryQuerySet.get.  The keywords are attribute names: [field, type,  *)
(* value] with type "".  What get returns is [exc, obj, reported]: the      *)
(* object, or the exception and the count its message reports.             *)
(***************************************************************************)
\* the condition of one comprehension of get: getattr(obj, attr) == value,
\* getattr without a default
GetCond(obj, kw) ==
    IF kw.field \in DOMAIN ObjAttrs[obj]
    THEN Bool(PyEq(ObjAttrs[obj][kw.field], kw.value))
    ELSE "AttributeError"

\* rslt = [obj for obj in rslt if getattr(obj, attr) == value]
GetComprehension(rslt, kw) ==
    LET bad == {i \in 1..Len(rslt) : GetCond(rslt[i], kw) \notin {"T", "F"}}
    IN  IF bad # {}
        THEN Raised(GetCond(rslt[CHOOSE i \in bad : \A j \in bad : i <= j], kw))
        ELSE Returned(SelectSeq(rslt, LAMBDA obj : GetCond(obj, kw) = "T"))

\* for attr, value in kwargs.items()
RECURSIVE GetLoop(_, _)
GetLoop(rslt, kwargs) ==
    IF kwargs = <<>> THEN Returned(rslt)
    ELSE LET step == GetComprehension(rslt, Head(kwargs))
         IN  IF step.exc # "none" THEN step ELSE GetLoop(step.results, Tail(kwargs))

NoObj == 0

\* the outcome of get once the loop has left rslt
GetOutcome(rslt) ==
    IF Len(rslt) = 1 THEN [exc |-> "none", obj |-> rslt[1], reported |-> 0]
    ELSE IF rslt = <<>>
         THEN [exc |-> "ObjectDoesNotExist", obj |-> NoObj, reported |-> 0]
         ELSE [exc |-> "MultipleObjectsReturned", obj |-> NoObj, reported |-> Len(rslt)]

\* InMemoryQuerySet.get
get(self, kwargs) ==
    LET rslt == GetLoop(self.results, kwargs)
    IN  IF rslt.exc # "none" THEN [exc |-> rslt.exc, obj |-> NoObj, reported |-> 0]
        ELSE GetOutcome(rslt.results)

(***************************************************************************)
(* InMemoryQuerySet.reverse and __iter__.                                  *)
(***************************************************************************)
\* list(reversed(rslt))
Reversed(rslt) == [i \in 1..Len(rslt) |-> rslt[Len(rslt) + 1 - i]]

\* InMemoryQuerySet.__iter__: [exc, results], the results sorted again by the
\* query's order_by when it has one
__iter__(self) ==
    IF self.order_by # <<>> THEN OrderLoop(self.results, self.order_by)
    ELSE Returned(self.results)

(***************************************************************************)
(* CachedQuerySet.  A cache backend is a dict: a function from the keys it *)
(* holds to [data, ts], the tuple (data_list, timestamp).  A cache key is  *)
(* its sequence of parts; the empty sequence is None (or '').              *)
(***************************************************************************)
EmptyDict == <<>>

\* d[k] = v, del d[k]
DictSet(d, k, v) == [x \in DOMAIN d \cup {k} |-> IF x = k THEN v ELSE d[x]]
DictDel(d, k) == [x \in DOMAIN d \ {k} |-> d[x]]

\* the dict a queryset's cache_backend attribute refers to
Backend(ref, mem, custom) == IF ref = "memory" THEN mem ELSE custom

\* hashlib.md5(str(fetch_func).encode()).hexdigest()[:8], left uninterpreted
md5_8(fetch_func) == "md5:" \o fetch_func

\* CachedQuerySet._generate_cache_key: self.attrs are the attributes __init__
\* has set so far; reading another raises AttributeError
_generate_cache_key(self) ==
    IF "model" \notin self.attrs THEN [exc |-> "AttributeError", key |-> <<>>]
    ELSE LET base == IF self.model # "None" THEN self.model ELSE "cached_qs"
         IN  IF "fetch_func" \notin self.attrs THEN [exc |-> "AttributeError", key |-> <<>>]
             ELSE IF self.fetch_func # "None"
                  THEN [exc |-> "none", key |-> <<base, "_", md5_8(self.fetch_func)>>]
                  ELSE [exc |-> "none", key |-> <<base>>]

\* What fetch_func() does when called: returns a list, returns something that
\* is not a list, or raises.
FetchLists == {<<1>>}
FetchValues == {2}
NoOutcome == [kind |-> "none", list |-> <<>>, value |-> 0]
FetchOutcomes ==
    {[kind |-> "list", list |-> l, value |-> 0] : l \in FetchLists}
        \cup {[kind |-> "value", list |-> <<>>, value |-> v] : v \in FetchValues}
        \cup {[kind |-> "raise", list |-> <<>>, value |-> 0]}

\* data if isinstance(data, list) else [data]
data_list(outcome) == IF outcome.kind = "list" THEN outcome.list ELSE <<outcome.value>>

\* (now - timestamp) < self.cache_timeout
MutFreshInverted(time, timestamp, cache_timeout) == (time - timestamp) > cache_timeout

MutFreshAtTimeout(time, timestamp, cache_timeout) == (time - timestamp) <= cache_timeout

Fresh(time, timestamp, cache_timeout) == (time - timestamp) < cache_timeout

\* the try block of _get_cached_or_fetch when fetch_func returns
Fetched(backend, cache_key, outcome, time) ==
    [data |-> data_list(outcome),
     backend |-> DictSet(backend, cache_key, [data |-> data_list(outcome), ts |-> time]),
     fetch_calls |-> 1]

\* the except block of _get_cached_or_fetch
MutFetchFailedDrops(backend, cache_key) ==
    [data |-> <<>>, backend |-> DictDel(backend, cache_key), fetch_calls |-> 1]

FetchFailed(backend, cache_key) ==
    IF cache_key \in DOMAIN backend
    THEN [data |-> backend[cache_key].data, backend |-> backend, fetch_calls |-> 1]
    ELSE [data |-> <<>>, backend |-> backend, fetch_calls |-> 1]

\* CachedQuerySet._get_cached_or_fetch, on the dict self.cache_backend refers
\* to: the data returned, the dict afterwards, the calls of fetch_func made
_get_cached_or_fetch(self, backend, time, outcome) ==
    IF /\ self.cache_key \in DOMAIN backend
       /\ Fresh(time, backend[self.cache_key].ts, self.cache_timeout)
    THEN [data |-> backend[self.cache_key].data, backend |-> backend, fetch_calls |-> 0]
    ELSE IF self.fetch_func # "None"
         THEN IF outcome.kind # "raise"
              THEN Fetched(backend, self.cache_key, outcome, time)
              ELSE FetchFailed(backend, self.cache_key)
         ELSE [data |-> <<>>, backend |-> backend, fetch_calls |-> 0]

\* cache_backend or self._get_memory_cache(): the dict handed in unless it is
\* None or empty
BackendOr(cache_backend, custom) ==
    IF cache_backend = "None" \/ custom = EmptyDict THEN "memory" ELSE cache_backend

NoData == [given |-> FALSE, list |-> <<>>]
Data(l) == [given |-> TRUE, list |-> l]

\* CachedQuerySet.__init__: [exc, value, mem, custom, fetch_calls]
CachedQuerySet(model, data, fetch_func, cache_key, cache_timeout, cache_backend, order, mem, custom, time, outcome) ==
    LET self1 == [attrs |-> {"fetch_func"}, fetch_func |-> fetch_func]
        generated == IF cache_key # <<>> THEN [exc |-> "none", key |-> cache_key]
                     ELSE _generate_cache_key(self1)
    IN  IF generated.exc # "none"
        THEN [exc |-> generated.exc, value |-> NoQS, mem |-> mem, custom |-> custom,
              fetch_calls |-> 0]
        ELSE LET ref == BackendOr(cache_backend, custom)
                 self == [cls |-> "CachedQuerySet", fetch_func |-> fetch_func,
                          cache_key |-> generated.key, cache_timeout |-> cache_timeout,
                          cache_backend |-> ref]
                 got == IF data.given
                        THEN [data |-> data.list, backend |-> Backend(ref, mem, custom),
                              fetch_calls |-> 0]
                        ELSE _get_cached_or_fetch(self, Backend(ref, mem, custom), time, outcome)
             IN  [exc |-> "none",
                  value |-> [cls |-> "CachedQuerySet", results |-> got.data, order_by |-> order,
                             fetch_func |-> fetch_func, cache_key |-> generated.key,
                             cache_timeout |-> cache_timeout, cache_backend |-> ref],
                  mem |-> IF ref = "memory" THEN got.backend ELSE mem,
                  custom |-> IF ref = "custom" THEN got.backend ELSE custom,
                  fetch_calls |-> got.fetch_calls]

\* CachedQuerySet.invalidate_cache: the dict self.cache_backend refers to, afterwards
MutInvalidateNoop(self, backend) == backend

invalidate_cache(self, backend) ==
    IF self.cache_key \in DOMAIN backend THEN DictDel(backend, self.cache_key) ELSE backend

\* CachedQuerySet.refresh: [exc, value, mem, custom, fetch_calls]
MutRefreshKeepsEntry(self, mem, custom, time, outcome) ==
    LET got == _get_cached_or_fetch(self, Backend(self.cache_backend, mem, custom), time, outcome)
    IN  [exc |-> "none", value |-> [self EXCEPT !.results = got.data],
         mem |-> IF self.cache_backend = "memory" THEN got.backend ELSE mem,
         custom |-> IF self.cache_backend = "custom" THEN got.backend ELSE custom,
         fetch_calls |-> got.fetch_calls]

refresh(self, mem, custom, time, outcome) ==
    LET cleared == invalidate_cache(self, Backend(self.cache_backend, mem, custom))
        got == _get_cached_or_fetch(self, cleared, time, outcome)
        mem1 == IF self.cache_backend = "memory" THEN got.backend ELSE mem
        custom1 == IF self.cache_backend = "custom" THEN got.backend ELSE custom
        made == CachedQuerySet("Item", Data(got.data), self.fetch_func, self.cache_key,
                               self.cache_timeout, self.cache_backend, self.order_by,
                               mem1, custom1, time, outcome)
    IN  [made EXCEPT !.fetch_calls = got.fetch_calls + made.fetch_calls]

(***************************************************************************)
(* ConfigQuerySet.  settings is a function from the names of the settings  *)
(* defined (code-point sequences) to their values.                         *)
(***************************************************************************)
\* the Query a queryset ends up with: the one handed in, or a new one
QueryOr(query) == IF query.t = "Query" THEN query.order_by ELSE <<>>

\* 'key' and 'value'
KeyStr == PyStr(<<107, 101, 121>>)
ValueStr == PyStr(<<118, 97, 108, 117, 101>>)

\* ConfigQuerySet._load_from_setting: [exc, results]
_load_from_setting(setting_name, sett) ==
    IF setting_name.t # "str" THEN Raised("TypeError")      \* getattr(): name must be str
    ELSE LET value == IF setting_name.s \in DOMAIN sett THEN sett[setting_name.s] ELSE PyNone
         IN  IF value.t = "none" THEN Returned(<<>>)
             ELSE IF value.t \in {"list", "tuple"} THEN Returned(value.s)
             ELSE IF value.t = "dict"
                  THEN Returned([i \in 1..Len(value.s) |->
                                    PyDict(<< <<KeyStr, value.s[i][1]>>,
                                              <<ValueStr, value.s[i][2]>> >>)])
                  ELSE Returned(<<value>>)

\* ConfigQuerySet.__init__ once data is settled: super().__init__(...)
ConfigQuerySetOf(loaded, setting_name, query) ==
    IF loaded.exc # "none" THEN Raise(loaded.exc)
    ELSE Return([cls |-> "ConfigQuerySet", results |-> loaded.results,
                 order_by |-> QueryOr(query), setting_name |-> setting_name])

\* ConfigQuerySet.__init__
ConfigQuerySet(model, data, setting_name, query, sett) ==
    ConfigQuerySetOf(IF ~data.given /\ Truthy(setting_name)
                     THEN _load_from_setting(setting_name, sett)
                     ELSE Returned(data.list),
                     setting_name, query)

(***************************************************************************)
(* JSONQuerySet.  A JSON text is its sequence of code points; files is a   *)
(* function from the paths of the files that exist to their texts.         *)
(***************************************************************************)
IsDigit(c) == c >= 48 /\ c <= 57

\* the first position from i on that holds no digit
RECURSIVE DigitsEnd(_, _)
DigitsEnd(text, i) ==
    IF i <= Len(text) /\ IsDigit(text[i]) THEN DigitsEnd(text, i + 1) ELSE i

\* the first position from i on that holds a double quote
RECURSIVE QuoteAt(_, _)
QuoteAt(text, i) ==
    IF i <= Len(text) /\ text[i] # 34 THEN QuoteAt(text, i + 1) ELSE i

\* int(digits)
RECURSIVE ToInt(_)
ToInt(digits) ==
    IF digits = <<>> THEN 0
    ELSE 10 * ToInt(SubSeq(digits, 1, Len(digits) - 1)) + (digits[Len(digits)] - 48)

NoParse == [ok |-> FALSE, value |-> PyNone, next |-> 0]

\* dict.__setitem__: a key already there keeps its place and takes the value
DictPut(items, k, v) ==
    IF \E i \in 1..Len(items) : items[i][1] = k
    THEN [i \in 1..Len(items) |-> IF items[i][1] = k THEN <<k, v>> ELSE items[i]]
    ELSE Append(items, <<k, v>>)

\* The JSON decoder, [ok, value, next]: in mode "value" on the value that
\* starts at text[i]; in mode "items" on the items of a list from text[i] on,
\* after those in items; in mode "pairs" likewise on the pairs of an object.
\* Numbers are unsigned integers, strings have no escapes, and there is no
\* white space.
RECURSIVE Parse(_, _, _, _)
Parse(mode, text, i, items) ==
    IF mode = "value"
    THEN IF i > Len(text) THEN NoParse
         ELSE IF IsDigit(text[i])
         THEN LET j == DigitsEnd(text, i)
              IN  IF text[i] = 48 /\ j > i + 1
                  THEN [ok |-> TRUE, value |-> PyInt(0), next |-> i + 1]
                  ELSE [ok |-> TRUE, value |-> PyInt(ToInt(SubSeq(text, i, j - 1))), next |-> j]
         ELSE IF text[i] = 34                                     \* "
         THEN LET j == QuoteAt(text, i + 1)
              IN  IF j > Len(text) THEN NoParse
                  ELSE [ok |-> TRUE, value |-> PyStr(SubSeq(text, i + 1, j - 1)),
                        next |-> j + 1]
         ELSE IF text[i] = 91                                     \* [
         THEN IF i < Len(text) /\ text[i + 1] = 93
              THEN [ok |-> TRUE, value |-> PyList(<<>>), next |-> i + 2]
              ELSE Parse("items", text, i + 1, <<>>)
         ELSE IF text[i] = 123                                    \* {
         THEN IF i < Len(text) /\ text[i + 1] = 125
              THEN [ok |-> TRUE, value |-> PyDict(<<>>), next |-> i + 2]
              ELSE Parse("pairs", text, i + 1, <<>>)
         ELSE NoParse
    ELSE IF mode = "items"
    THEN LET v == Parse("value", text, i, <<>>)
         IN  IF ~v.ok \/ v.next > Len(text) THEN NoParse
             ELSE IF text[v.next] = 44
                  THEN Parse("items", text, v.next + 1, Append(items, v.value))
             ELSE IF text[v.next] = 93
                  THEN [ok |-> TRUE, value |-> PyList(Append(items, v.value)),
                        next |-> v.next + 1]
                  ELSE NoParse
    ELSE LET k == Parse("value", text, i, <<>>)
         IN  IF ~k.ok \/ k.value.t # "str" \/ k.next > Len(text) \/ text[k.next] # 58
             THEN NoParse
             ELSE LET v == Parse("value", text, k.next + 1, <<>>)
                  IN  IF ~v.ok \/ v.next > Len(text) THEN NoParse
                      ELSE IF text[v.next] = 44
                           THEN Parse("pairs", text, v.next + 1,
                                      DictPut(items, k.value, v.value))
                      ELSE IF text[v.next] = 125
                           THEN [ok |-> TRUE,
                                 value |-> PyDict(DictPut(items, k.value, v.value)),
                                 next |-> v.next + 1]
                           ELSE NoParse

\* what an expression evaluates to: [exc, value]
Value(v) == [exc |-> "none", value |-> v]
Throw(exc) == [exc |-> exc, value |-> PyNone]

\* json.loads(text) and json.load(f): the whole text is one value
loads(text) ==
    LET v == Parse("value", text, 1, <<>>)
    IN  IF v.ok /\ v.next = Len(text) + 1 THEN Value(v.value) ELSE Throw("JSONDecodeError")

\* path.split("."): the parts between the full stops
RECURSIVE Split(_)
Split(path) ==
    IF \A i \in 1..Len(path) : path[i] # 46 THEN <<path>>
    ELSE LET i == CHOOSE i \in 1..Len(path) :
                      path[i] = 46 /\ \A j \in 1..(i - 1) : path[j] # 46
         IN  <<SubSeq(path, 1, i - 1)>> \o Split(SubSeq(path, i + 1, Len(path)))

\* part.isdigit()
isdigit(part) == part # <<>> /\ \A i \in 1..Len(part) : IsDigit(part[i])

\* current.get(part)
DictGet(current, part) ==
    IF \E i \in 1..Len(current.s) : current.s[i][1] = PyStr(part)
    THEN current.s[CHOOSE i \in 1..Len(current.s) : current.s[i][1] = PyStr(part)][2]
    ELSE PyNone

\* the loop of _extract_json_path over the parts left
RECURSIVE ExtractLoop(_, _)
ExtractLoop(current, parts) ==
    IF parts = <<>> THEN Value(current)
    ELSE IF current.t = "dict" THEN ExtractLoop(DictGet(current, Head(parts)), Tail(parts))
    ELSE IF current.t = "list" /\ isdigit(Head(parts))
         THEN IF ToInt(Head(parts)) < Len(current.s)
              THEN ExtractLoop(current.s[ToInt(Head(parts)) + 1], Tail(parts))
              ELSE Throw("IndexError")
         ELSE Value(PyNone)

\* JSONQuerySet._extract_json_path: [exc, value]
_extract_json_path(data, path) == ExtractLoop(data, Split(path))

\* except (json.JSONDecodeError, FileNotFoundError, KeyError)
Caught == {"JSONDecodeError", "FileNotFoundError", "KeyError"}

\* the document of _load_json: the dict itself, the text of the file when the
\* source is the path of one, or else the source as JSON text
Document(json_source, fs) ==
    IF json_source.t = "dict" THEN Value(json_source)
    ELSE IF json_source.s \in DOMAIN fs THEN loads(fs[json_source.s])
    ELSE loads(json_source.s)

\* if self.json_path: data = self._extract_json_path(data, self.json_path)
AtPath(doc, json_path) ==
    IF doc.exc = "none" /\ Truthy(json_path) THEN _extract_json_path(doc.value, json_path.s)
    ELSE doc

\* what _load_json returns for the data it has, or for the exception raised
AsList(data) ==
    IF data.exc \in Caught THEN Returned(<<>>)
    ELSE IF data.exc # "none" THEN Raised(data.exc)
    ELSE IF data.value.t = "list" THEN Returned(data.value.s)
    ELSE IF data.value.t = "dict" THEN Returned(<<data.value>>)
    ELSE Returned(<<>>)

\* JSONQuerySet._load_json: [exc, results]
_load_json(json_source, json_path, fs) ==
    IF ~Truthy(json_source) THEN Returned(<<>>)
    ELSE IF json_source.t \notin {"dict", "str", "Path"} THEN Returned(<<>>)
    ELSE AsList(AtPath(Document(json_source, fs), json_path))

\* JSONQuerySet.__init__ once data is settled: super().__init__(...)
JSONQuerySetOf(loaded, json_source, json_path, query) ==
    IF loaded.exc # "none" THEN Raise(loaded.exc)
    ELSE Return([cls |-> "JSONQuerySet", results |-> loaded.results,
                 order_by |-> QueryOr(query),
                 json_source |-> json_source, json_path |-> json_path])

\* JSONQuerySet.__init__
JSONQuerySet(model, data, json_source, json_path, query, fs) ==
    JSONQuerySetOf(IF ~data.given /\ Truthy(json_source)
                   THEN _load_json(json_source, json_path, fs)
                   ELSE Returned(data.list),
                   json_source, json_path, query)

(***************************************************************************)
(* APIQuerySet.  A queryset has its own _cache and _last_fetch, both None  *)
(* when it is constructed.                                                 *)
(***************************************************************************)
\* APIQuerySet._fetch_data with _cache and _last_fetch None: [exc, results];
\* calling what is not a function raises TypeError, which is caught
_fetch_data(fetch_func, outcome) ==
    IF ~Truthy(fetch_func) THEN Returned(<<>>)
    ELSE IF fetch_func.t # "function" THEN Returned(<<>>)
    ELSE IF outcome.kind = "raise" THEN Returned(<<>>)
    ELSE Returned(data_list(outcome))

\* cache_timeout: int = 300
DefaultTimeout == 300

\* APIQuerySet.__init__
APIQuerySet(model, data, fetch_func, cache_timeout, query, outcome) ==
    LET loaded == IF ~data.given /\ Truthy(fetch_func)
                  THEN _fetch_data(fetch_func, outcome)
                  ELSE Returned(data.list)
    IN  Return([cls |-> "APIQuerySet", results |-> loaded.results,
                order_by |-> QueryOr(query),
                fetch_func |-> fetch_func, cache_timeout |-> cache_timeout])

(***************************************************************************)
(* The methods of InMemoryQuerySet that return a queryset, which every     *)
(* subclass inherits.  Each ends in                                        *)
(*   self.__class__(self.model, rslt, query, using=..., hints=...)         *)
(* so the query is the third positional argument of the subclass.          *)
(***************************************************************************)
self_class(self, rslt, order) ==
    CASE self.cls = "InMemoryQuerySet" -> Return(InMemoryQuerySet(rslt, order))
      [] self.cls = "ConfigQuerySet" ->
            ConfigQuerySet("Item", Data(rslt), QueryObj(order), PyNone, settings)
      [] self.cls = "JSONQuerySet" ->
            JSONQuerySet("Item", Data(rslt), QueryObj(order), PyNone, PyNone, files)
      [] self.cls = "APIQuerySet" ->
            APIQuerySet("Item", Data(rslt), QueryObj(order), DefaultTimeout, PyNone, NoOutcome)
      [] self.cls = "CachedQuerySet" ->
            LET made == CachedQuerySet("Item", Data(rslt), QueryObj(order), <<>>,
                                       DefaultTimeout, "None", <<>>,
                                       memory_cache, custom_cache, now, NoOutcome)
            IN  [exc |-> made.exc, value |-> made.value]

\* InMemoryQuerySet.filter
filter(self, kwargs) ==
    LET rslt == FilterLoop(self.results, kwargs)
    IN  IF rslt.exc # "none" THEN Raise(rslt.exc)
        ELSE self_class(self, rslt.results, self.order_by)

\* {id(obj) for obj in filtered._result_cache}
Ids(results) == {results[i] : i \in 1..Len(results)}

\* exclude, once filter has returned or raised
Excluding(self, filtered) ==
    IF filtered.exc # "none" THEN filtered
    ELSE self_class(self, NotExcluded(self.results, Ids(filtered.value.results)),
                    self.order_by)

\* InMemoryQuerySet.exclude
exclude(self, kwargs) == Excluding(self, filter(self, kwargs))

\* InMemoryQuerySet.order_by
order_by(self, fields) ==
    LET rslt == OrderLoop(self.results, fields)
    IN  IF rslt.exc # "none" THEN Raise(rslt.exc)
        ELSE self_class(self, rslt.results, fields)

\* InMemoryQuerySet.reverse: the results reversed, the query cloned
reverse(self) == self_class(self, Reversed(self.results), self.order_by)

\* InMemoryQuerySet.distinct: the first place of each object
distinct(self) ==
    LET r == self.results
        F[i \in 0..Len(r)] ==
            IF i = 0 THEN <<>>
            ELSE IF \E j \in 1..(i - 1) : r[j] = r[i] THEN F[i - 1] ELSE Append(F[i - 1], r[i])
    IN  self_class(self, F[Len(r)], self.order_by)

\* InMemoryQuerySet.none
none(self) == self_class(self, <<>>, self.order_by)

\* InMemoryQuerySet.__getitem__ with slice(start, stop), neither negative
__getitem__(self, start, stop) ==
    LET r == self.results
        hi == IF stop < Len(r) THEN stop ELSE Len(r)
    IN  self_class(self, SubSeq(r, start + 1, hi), self.order_by)

\* InMemoryQuerySet._clone, which ConfigQuerySet and JSONQuerySet inherit
_clone(self) == self_class(self, self.results, self.order_by)

\* ConfigQuerySet.reload
ConfigQuerySet_reload(self, sett) ==
    IF Truthy(self.setting_name)
    THEN ConfigQuerySetOf(_load_from_setting(self.setting_name, sett), self.setting_name,
                          QueryObj(self.order_by))
    ELSE _clone(self)

\* JSONQuerySet.reload
JSONQuerySet_reload(self, fs) ==
    JSONQuerySetOf(_load_json(self.json_source, self.json_path, fs),
                   self.json_source, self.json_path, QueryObj(self.order_by))

\* APIQuerySet.refresh
APIQuerySet_refresh(self, outcome) ==
    APIQuerySet("Item", Data(_fetch_data(self.fetch_func, outcome).results), self.fetch_func,
                self.cache_timeout, QueryObj(self.order_by), outcome)

(***************************************************************************)
(* The calls on CachedQuerySet and its manager, and the clock.             *)
(***************************************************************************)
\* the keys the calls below are made with, and a key of some other queryset
CacheKeys == {<<"k1">>}
OtherKey == <<"other">>
Timeouts == {2}
FetchFuncs == {"None", "f"}

NoEv == [op |-> "none"]

\* the entry of the key in the dict before the call: "absent", "fresh", "expired"
EntryState(backend, cache_key, cache_timeout, time) ==
    IF cache_key \notin DOMAIN backend THEN "absent"
    ELSE IF (time - backend[cache_key].ts) < cache_timeout THEN "fresh" ELSE "expired"

\* The class-level dict is empty, or holds what an earlier queryset with another
\* key has cached; the caller's own dict is empty or holds entries already.
Init ==
    /\ memory_cache \in {EmptyDict, DictSet(EmptyDict, OtherKey, [data |-> <<2>>, ts |-> 0])}
    /\ custom_cache \in
          {EmptyDict,
           DictSet(EmptyDict, <<"k1">>, [data |-> <<1>>, ts |-> 0]),
           DictSet(DictSet(EmptyDict, <<"k1">>, [data |-> <<1>>, ts |-> 0]),
                   OtherKey, [data |-> <<2>>, ts |-> 0])}
    /\ now = 0
    /\ qs = NoQS
    /\ ev = NoEv
    /\ settings = EmptyDict
    /\ files = EmptyDict
    /\ NoManager

\* what the caller sees of a constructor call
Called(op, r, data, cache_key, cache_timeout, outcome) ==
    /\ memory_cache' = r.mem
    /\ custom_cache' = r.custom
    /\ qs' = IF r.exc = "none" THEN r.value ELSE qs
    /\ ev' = [op |-> op, exc |-> r.exc, fetch_calls |-> r.fetch_calls,
              outcome |-> IF r.fetch_calls > 0 THEN outcome ELSE NoOutcome,
              data_given |-> data.given, key_arg |-> cache_key,
              pre |-> IF r.exc # "none" THEN "none"
                      ELSE EntryState(Backend(r.value.cache_backend, memory_cache, custom_cache),
                                      r.value.cache_key, cache_timeout, now)]
    /\ UNCHANGED <<now, envVars>>

\* CachedQuerySet(model, data, fetch_func, cache_key, cache_timeout, cache_backend)
Construct ==
    \E data \in {NoData} \cup {Data(l) : l \in FetchLists \cup {<<>>}},
       fetch_func \in FetchFuncs,
       cache_key \in CacheKeys \cup {<<>>},
       cache_timeout \in Timeouts,
       cache_backend \in {"None", "custom"},
       outcome \in FetchOutcomes :
        Called("construct",
               CachedQuerySet("Item", data, fetch_func, cache_key, cache_timeout, cache_backend,
                              <<>>, memory_cache, custom_cache, now, outcome),
               data, cache_key, cache_timeout, outcome)

\* CachedQuerySetManager(fetch_func, cache_key, cache_timeout).get_queryset()
GetQueryset ==
    \E cache_key \in CacheKeys \cup {<<>>},
       cache_timeout \in Timeouts,
       outcome \in FetchOutcomes :
        Called("get_queryset",
               CachedQuerySet("Item", NoData, "f", cache_key, cache_timeout, "None",
                              <<>>, memory_cache, custom_cache, now, outcome),
               NoData, cache_key, cache_timeout, outcome)

\* qs.invalidate_cache()
InvalidateCache ==
    /\ qs.cls = "CachedQuerySet"
    /\ LET cleared == invalidate_cache(qs, Backend(qs.cache_backend, memory_cache, custom_cache))
       IN  /\ memory_cache' = IF qs.cache_backend = "memory" THEN cleared ELSE memory_cache
           /\ custom_cache' = IF qs.cache_backend = "custom" THEN cleared ELSE custom_cache
    /\ ev' = [op |-> "invalidate_cache", exc |-> "none", fetch_calls |-> 0,
              outcome |-> NoOutcome,
              data_given |-> FALSE, key_arg |-> qs.cache_key,
              pre |-> EntryState(Backend(qs.cache_backend, memory_cache, custom_cache),
                                 qs.cache_key, qs.cache_timeout, now)]
    /\ UNCHANGED <<now, qs, envVars>>

\* qs = qs.refresh()
Refresh ==
    /\ qs.cls = "CachedQuerySet"
    /\ \E outcome \in FetchOutcomes :
          LET r == refresh(qs, memory_cache, custom_cache, now, outcome)
          IN  /\ memory_cache' = r.mem
              /\ custom_cache' = r.custom
              /\ qs' = r.value
              /\ ev' = [op |-> "refresh", exc |-> r.exc, fetch_calls |-> r.fetch_calls,
                        outcome |-> IF r.fetch_calls > 0 THEN outcome
                                    ELSE NoOutcome,
                        data_given |-> FALSE, key_arg |-> qs.cache_key,
                        pre |-> EntryState(Backend(qs.cache_backend, memory_cache, custom_cache),
                                           qs.cache_key, qs.cache_timeout, now)]
    /\ UNCHANGED <<now, envVars>>

\* time passes
Tick ==
    /\ now < MaxTime
    /\ now' = now + 1
    /\ ev' = [op |-> "tick"]
    /\ UNCHANGED <<memory_cache, custom_cache, qs, envVars>>

Next == Construct \/ GetQueryset \/ InvalidateCache \/ Refresh \/ Tick

Spec == Init /\ [][Next]_vars

(***************************************************************************)
(* The calls on an in-memory queryset.  The receiver is any list over      *)
(* Objects; the keywords and fields are drawn from the sets below.         *)
(***************************************************************************)
FieldNames == {"name", "rank"}

\* The lookup values, of the kind of the field they are compared with: name
\* holds strings, rank holds numbers, either may hold None.
NameValues == {PyNone, PyStr(<<>>), PyStr(<<97>>)}
RankValues == {PyNone, PyInt(1)}
NameLists == {PyList(<<>>), PyList(<<PyStr(<<97>>), PyNone>>)}
RankLists == {PyList(<<PyInt(1)>>), PyList(<<PyInt(2), PyNone>>)}
StrValues == {PyStr(<<97>>), PyStr(<<65>>), PyStr(<<110>>)}
BoolValues == {PyBool(TRUE), PyBool(FALSE)}

Kw(fields, types, values) == [field : fields, type : types, value : values]

Keywords ==
    Kw({"name"}, {"", "exact"}, NameValues) \cup Kw({"rank"}, {"", "exact"}, RankValues)
        \cup Kw({"name"}, {"in"}, NameLists) \cup Kw({"rank"}, {"in"}, RankLists)
        \cup Kw({"name"}, CmpLookups, {PyStr(<<97>>)}) \cup Kw({"rank"}, CmpLookups, {PyInt(1)})
        \cup Kw(FieldNames, {"isnull"}, BoolValues)
        \cup Kw(FieldNames, StrLookups, StrValues)

\* the keywords that are also given two at a time
PairKeywords ==
    {k \in Keywords :
        \/ k.type = "" /\ k.value \in {PyStr(<<97>>), PyInt(1)}
        \/ k.type = "gt" /\ k.value = PyInt(1)
        \/ k.type = "isnull" /\ k.value = PyBool(FALSE)
        \/ k.type = "icontains" /\ k.value = PyStr(<<97>>)}

\* **kwargs: a dict, so no lookup string twice, in the order given
Kwargs ==
    {<<k>> : k \in Keywords}
        \cup {<<p[1], p[2]>> : p \in {p \in PairKeywords \X PairKeywords :
                                          <<p[1].field, p[1].type>> # <<p[2].field, p[2].type>>}}

OrderFields ==
    { <<>>, << <<"name">> >>, << <<"-", "name">> >>, << <<"rank">> >>, << <<"-", "rank">> >>,
      << <<"name">>, <<"-", "rank">> >>, << <<"-", "rank">>, <<"name">> >>,
      << <<"-", "name">>, <<"rank">> >> }


QueryInit ==
    /\ memory_cache = EmptyDict
    /\ custom_cache = EmptyDict
    /\ now = 0
    /\ qs \in {InMemoryQuerySet(data, <<>>) : data \in SeqsUpTo(Objects, MaxLen)}
    /\ ev = NoEv
    /\ settings = EmptyDict
    /\ files = EmptyDict
    /\ NoManager

\* the calls that return a queryset made from the receiver
Derivations == {"filter", "exclude", "order_by", "reverse", "distinct", "none()", "slice"}

\* qs.filter(**kwargs)
Filter ==
    /\ ev.op = "none"
    /\ \E kwargs \in Kwargs :
          ev' = [op |-> "filter", kwargs |-> kwargs, ret |-> filter(qs, kwargs)]
    /\ UNCHANGED <<memory_cache, custom_cache, now, qs, envVars>>

\* qs.exclude(**kwargs)
Exclude ==
    /\ ev.op = "none"
    /\ \E kwargs \in Kwargs :
          ev' = [op |-> "exclude", kwargs |-> kwargs, ret |-> exclude(qs, kwargs)]
    /\ UNCHANGED <<memory_cache, custom_cache, now, qs, envVars>>

\* qs.order_by(*fields)
OrderBy ==
    /\ ev.op = "none"
    /\ \E fields \in OrderFields :
          ev' = [op |-> "order_by", fields |-> fields, ret |-> order_by(qs, fields)]
    /\ UNCHANGED <<memory_cache, custom_cache, now, qs, envVars>>

\* qs.get(**kwargs), with attribute names as keywords
GetKwargs == {kwargs \in Kwargs : \A i \in 1..Len(kwargs) : kwargs[i].type = ""}

Get ==
    /\ ev.op = "none"
    /\ \E kwargs \in GetKwargs :
          ev' = [op |-> "get", kwargs |-> kwargs, ret |-> get(qs, kwargs)]
    /\ UNCHANGED <<memory_cache, custom_cache, now, qs, envVars>>

\* qs.reverse()
Reverse ==
    /\ ev.op = "none"
    /\ ev' = [op |-> "reverse", ret |-> reverse(qs)]
    /\ UNCHANGED <<memory_cache, custom_cache, now, qs, envVars>>

\* list(qs)
Iterate ==
    /\ ev.op = "none"
    /\ ev' = [op |-> "iter", ret |-> __iter__(qs)]
    /\ UNCHANGED <<memory_cache, custom_cache, now, qs, envVars>>

\* qs.distinct()
Distinct ==
    /\ ev.op = "none"
    /\ ev' = [op |-> "distinct", ret |-> distinct(qs)]
    /\ UNCHANGED <<memory_cache, custom_cache, now, qs, envVars>>

\* qs.none()
CallNone ==
    /\ ev.op = "none"
    /\ ev' = [op |-> "none()", ret |-> none(qs)]
    /\ UNCHANGED <<memory_cache, custom_cache, now, qs, envVars>>

\* qs[start:stop]
Slice ==
    /\ ev.op = "none"
    /\ \E start \in 0..1, stop \in 1..MaxLen :
          /\ start <= stop
          /\ ev' = [op |-> "slice", start |-> start, stop |-> stop,
                    ret |-> __getitem__(qs, start, stop)]
    /\ UNCHANGED <<memory_cache, custom_cache, now, qs, envVars>>

\* the caller goes on with the queryset the call returned: qs = qs.filter(...)
Chain ==
    /\ ev.op \in Derivations
    /\ ev.ret.exc = "none"
    /\ qs' = ev.ret.value
    /\ ev' = NoEv
    /\ UNCHANGED <<memory_cache, custom_cache, now, envVars>>

QueryNext ==
    \/ Filter \/ Exclude \/ OrderBy \/ Get \/ Reverse \/ Iterate
    \/ Distinct \/ CallNone \/ Slice \/ Chain

SpecQuery == QueryInit /\ [][QueryNext]_vars

(***************************************************************************)
(* The calls on the querysets with a data source.                          *)
(***************************************************************************)
\* qs = qs.reload() on a ConfigQuerySet
ConfigReload ==
    /\ qs.cls = "ConfigQuerySet"
    /\ LET r == ConfigQuerySet_reload(qs, settings)
       IN  /\ ev' = [op |-> "reload", receiver |-> qs, ret |-> r]
           /\ qs' = IF r.exc = "none" THEN r.value ELSE qs
    /\ UNCHANGED <<memory_cache, custom_cache, now, envVars>>

\* qs = qs.reload() on a JSONQuerySet
JSONReload ==
    /\ qs.cls = "JSONQuerySet"
    /\ LET r == JSONQuerySet_reload(qs, files)
       IN  /\ ev' = [op |-> "reload", receiver |-> qs, ret |-> r]
           /\ qs' = IF r.exc = "none" THEN r.value ELSE qs
    /\ UNCHANGED <<memory_cache, custom_cache, now, envVars>>

\* qs = qs.refresh() on an APIQuerySet
APIRefresh ==
    /\ qs.cls = "APIQuerySet"
    /\ \E outcome \in FetchOutcomes :
          LET r == APIQuerySet_refresh(qs, outcome)
          IN  /\ ev' = [op |-> "refresh", receiver |-> qs, ret |-> r, outcome |-> outcome]
              /\ qs' = r.value
    /\ UNCHANGED <<memory_cache, custom_cache, now, envVars>>

(***************************************************************************)
(* Chains on the querysets with a data source: the receiver is what the    *)
(* manager of its class returns, over a source that holds the list.        *)
(***************************************************************************)
SName == PyStr(<<83>>)          \* the setting 'S'
AKey == PyStr(<<97>>)           \* the key and json_path 'a'
FetchF == Function("f")
CachedTimeout == CHOOSE t \in Timeouts : TRUE

\* the lists the sources hold
SourceLists == SeqsUpTo({1, 2, 3}, MaxLen)

SettingsOf(l) == [n \in {SName.s} |-> PyList(l)]
JSONSourceOf(l) == PyDict(<< <<AKey, PyList(l)>> >>)
OutcomeOf(l) == [kind |-> "list", list |-> l, value |-> 0]

ChainInit ==
    /\ NoManager
    /\ \E l \in SourceLists :
            LET cached == CachedQuerySet("Item", NoData, "f", <<"k1">>, CachedTimeout, "None", <<>>,
                                         EmptyDict, EmptyDict, 0, OutcomeOf(l))
            IN  /\ settings = SettingsOf(l)
                /\ files = EmptyDict
                /\ custom_cache = EmptyDict
                /\ now = 0
                /\ ev = NoEv
                /\ \/ /\ qs = ConfigQuerySet("Item", NoData, SName, PyNone, settings).value
                      /\ memory_cache = EmptyDict
                   \/ /\ qs = JSONQuerySet("Item", NoData, JSONSourceOf(l), AKey, PyNone,
                                           files).value
                      /\ memory_cache = EmptyDict
                   \/ /\ qs = APIQuerySet("Item", NoData, FetchF, CachedTimeout, PyNone,
                                          OutcomeOf(l)).value
                      /\ memory_cache = EmptyDict
                   \/ /\ qs = cached.value
                      /\ memory_cache = cached.mem

ChainNext ==
    \/ Filter \/ Exclude \/ OrderBy \/ Reverse \/ Distinct \/ CallNone \/ Slice \/ Chain
    \/ ConfigReload \/ JSONReload \/ APIRefresh \/ Refresh

SpecChain == ChainInit /\ [][ChainNext]_vars

(***************************************************************************)
(* Loading from settings and from JSON: the constructors, reload, and the  *)
(* settings and files changing in between.                                 *)
(***************************************************************************)
\* what a setting, a list or a dict holds: 'x' and 1
Atoms == {PyStr(<<120>>), PyInt(1)}
BKey == PyStr(<<98>>)           \* the key 'b'

\* the dicts of at most n items over the keys 'a' and 'b'
DictsUpTo(n) ==
    {PyDict(items) : items \in {d \in SeqsUpTo({AKey, BKey} \X Atoms, n) :
                                    \A i, j \in 1..Len(d) : d[i][1] = d[j][1] => i = j}}

SettingValues ==
    {PyNone, PyStr(<<>>), PyStr(<<120>>), PyInt(0)}
        \cup {PyList(l) : l \in SeqsUpTo(Atoms, MaxLen)}
        \cup {PyTuple(l) : l \in SeqsUpTo(Atoms, MaxLen)}
        \cup DictsUpTo(MaxLen)

\* the settings module: S undefined, or defined with a value
SettingsStates == {EmptyDict} \cup {[n \in {SName.s} |-> v] : v \in SettingValues}

\* ConfigQuerySet(model, data, setting_name), as the manager calls it (no data)
\* or with the data given
ConfigConstruct ==
    /\ \E data \in {NoData, Data(<<>>), Data(<<PyInt(1)>>)},
          setting_name \in {PyNone, PyStr(<<>>), SName} :
          LET r == ConfigQuerySet("Item", data, setting_name, PyNone, settings)
          IN  /\ ev' = [op |-> "config", data |-> data, setting_name |-> setting_name,
                        ret |-> r]
              /\ qs' = IF r.exc = "none" THEN r.value ELSE qs
    /\ UNCHANGED <<memory_cache, custom_cache, now, envVars>>

\* the settings change (override_settings, or a new settings module)
SetSetting ==
    /\ \E sett \in SettingsStates : sett # settings /\ settings' = sett
    /\ ev' = [op |-> "set"]
    /\ UNCHANGED <<memory_cache, custom_cache, now, qs, files, managerVars>>

\* JSON texts: [1]  {"a":[1]}  5  x  p
TextList == <<91, 49, 93>>
TextDict == <<123, 34, 97, 34, 58, 91, 49, 93, 125>>
TextFive == <<53>>
TextBad == <<120>>
PathP == <<112>>

\* {'a': [1, {'b': 'x'}]} and the dicts of one level
JSONDicts ==
    {PyDict(<< <<AKey, PyList(<<PyInt(1), PyDict(<< <<BKey, PyStr(<<120>>)>> >>)>>)>> >>)}
        \cup DictsUpTo(1)

JSONSources ==
    JSONDicts
        \cup {PyStr(t) : t \in {<<>>, TextList, TextDict, TextFive, TextBad, PathP}}
        \cup {PyPath(PathP), PyNone, PyInt(5), PyList(<<PyInt(1)>>)}

\* json_path: None, '', 'a', 'b', 'a.0', 'a.1', 'a.2', 'a.x', 'a.1.b'
JSONPaths ==
    {PyNone} \cup {PyStr(t) : t \in {<<>>, <<97>>, <<98>>, <<97, 46, 48>>, <<97, 46, 49>>,
                                     <<97, 46, 50>>, <<97, 46, 120>>,
                                     <<97, 46, 49, 46, 98>>}}

\* the file system: no file p, or p with a text
FileStates == {EmptyDict} \cup {[n \in {PathP} |-> t] : t \in {TextList, TextDict, TextBad}}

\* JSONQuerySet(model, json_source=..., json_path=...), as the manager calls it
JSONConstruct ==
    /\ \E json_source \in JSONSources, json_path \in JSONPaths :
          LET r == JSONQuerySet("Item", NoData, json_source, json_path, PyNone, files)
          IN  /\ ev' = [op |-> "json", json_source |-> json_source,
                        json_path |-> json_path, ret |-> r]
              /\ qs' = IF r.exc = "none" THEN r.value ELSE qs
    /\ UNCHANGED <<memory_cache, custom_cache, now, envVars>>

\* a file is written, replaced or removed
WriteFile ==
    /\ \E fs \in FileStates : fs # files /\ files' = fs
    /\ ev' = [op |-> "write"]
    /\ UNCHANGED <<memory_cache, custom_cache, now, qs, settings, managerVars>>

\* ConfigQuerySet over the settings
ConfigInit ==
    /\ memory_cache = EmptyDict
    /\ custom_cache = EmptyDict
    /\ now = 0
    /\ qs = NoQS
    /\ ev = NoEv
    /\ settings \in SettingsStates
    /\ files = EmptyDict
    /\ NoManager

ConfigNext == ConfigConstruct \/ ConfigReload \/ SetSetting

SpecConfig == ConfigInit /\ [][ConfigNext]_vars

\* JSONQuerySet over the file system
JSONInit ==
    /\ memory_cache = EmptyDict
    /\ custom_cache = EmptyDict
    /\ now = 0
    /\ qs = NoQS
    /\ ev = NoEv
    /\ settings = EmptyDict
    /\ files \in FileStates
    /\ NoManager

JSONNext == JSONConstruct \/ JSONReload \/ WriteFile

SpecJSON == JSONInit /\ [][JSONNext]_vars

(***************************************************************************)
(* VirtualManager.  heap holds the list objects alive: the manager's own    *)
(* list of items at ItemsRef, and the _result_cache of each queryset that  *)
(* get_queryset() returned.  A queryset here is [cls, ref, order_by], ref    *)
(* being the identity of its _result_cache.                                *)
(***************************************************************************)
MaxQuerysets == 2       \* get_queryset() is called this often
ItemsRef == 1           \* the identity of the manager's own list
NoRef == 0              \* None

\* the identity of a new object: the least not in use
NewId(h) == CHOOSE i \in 1..(Cardinality(DOMAIN h) + 1) :
                i \notin DOMAIN h /\ \A j \in 1..(i - 1) : j \in DOMAIN h

\* a new list with these elements: [heap, ref]
Alloc(h, items) == [heap |-> DictSet(h, NewId(h), items), ref |-> NewId(h)]

\* only the lists something refers to stay alive
Collect(h, refs) == [i \in DOMAIN h \cap refs |-> h[i]]

\* get_data(): [heap, ref].  The default returns a new empty list; an override
\* returns the manager's own list, a new list of its items, or None.
GetDataKinds == {"default", "stored", "fresh", "none"}
get_data(kind, h) ==
    CASE kind = "default" -> Alloc(h, <<>>)
      [] kind = "stored" -> [heap |-> h, ref |-> ItemsRef]
      [] kind = "fresh" -> Alloc(h, h[ItemsRef])
      [] OTHER -> [heap |-> h, ref |-> NoRef]

\* data or []
Falsy(h, data) == data = NoRef \/ h[data] = <<>>

\* self._result_cache = list(data or []): [heap, ref]
MutResultCacheIsData(h, data) ==
    IF Falsy(h, data) THEN Alloc(h, <<>>) ELSE [heap |-> h, ref |-> data]

_result_cache(h, data) ==
    IF Falsy(h, data) THEN Alloc(h, <<>>) ELSE Alloc(h, h[data])

\* the identities the querysets hold
Refs(qsets) == {qsets[i].ref : i \in 1..Len(qsets)}

\* VirtualManager.queryset_class
queryset_class == "InMemoryQuerySet"

\* the queryset as the methods of InMemoryQuerySet see it
View(q, h) == InMemoryQuerySet(h[q.ref], q.order_by)

\* manager.get_queryset(): get_data(), then queryset_class(model, data=data)
VirtualGetQueryset ==
    /\ Len(querysets) < MaxQuerysets
    /\ \E kind \in GetDataKinds :
          LET data == get_data(kind, heap)
              made == _result_cache(data.heap, data.ref)
          IN  /\ get_data_calls' = get_data_calls + 1
              /\ querysets' = Append(querysets, [cls |-> queryset_class, ref |-> made.ref,
                                                  order_by |-> <<>>])
              /\ heap' = Collect(made.heap, Refs(querysets') \cup {ItemsRef})
              /\ ev' = [op |-> "virtual_get_queryset", kind |-> kind,
                        items |-> IF data.ref = NoRef THEN <<>> ELSE data.heap[data.ref]]
    /\ UNCHANGED <<memory_cache, custom_cache, now, qs, settings, files>>

\* the caller replaces the i-th queryset by what a call on it returned: the
\* list rslt of the call, then the _result_cache made of it
Replaced(i, ret) ==
    IF ret.exc # "none" THEN UNCHANGED <<heap, querysets>>
    ELSE LET rslt == Alloc(heap, ret.value.results)
             made == _result_cache(rslt.heap, rslt.ref)
         IN  /\ querysets' = [querysets EXCEPT ![i] = [cls |-> ret.value.cls, ref |-> made.ref,
                                                        order_by |-> ret.value.order_by]]
             /\ heap' = Collect(made.heap, Refs(querysets') \cup {ItemsRef})

\* the calls made on the managed querysets: filter(rank=1), order_by('-rank')
ManagedKwargs == {<<k>> : k \in Kw({"rank"}, {""}, {PyInt(1)})}
ManagedFields == { << <<"-", "rank">> >> }

\* the lists a manager keeps
ManagerLists == SeqsUpTo({1, 2}, MaxLen)

\* querysets[i] = querysets[i].filter(**kwargs)
ManagedFilter ==
    /\ \E i \in 1..Len(querysets), kwargs \in ManagedKwargs :
          LET ret == filter(View(querysets[i], heap), kwargs)
          IN  /\ Replaced(i, ret)
              /\ ev' = [op |-> "managed_filter", i |-> i, kwargs |-> kwargs, exc |-> ret.exc]
    /\ UNCHANGED <<memory_cache, custom_cache, now, qs, settings, files, get_data_calls>>

\* querysets[i] = querysets[i].order_by(*fields)
ManagedOrderBy ==
    /\ \E i \in 1..Len(querysets), fields \in ManagedFields :
          LET ret == order_by(View(querysets[i], heap), fields)
          IN  /\ Replaced(i, ret)
              /\ ev' = [op |-> "managed_order_by", i |-> i, fields |-> fields,
                        exc |-> ret.exc]
    /\ UNCHANGED <<memory_cache, custom_cache, now, qs, settings, files, get_data_calls>>

ManagerInit ==
    /\ memory_cache = EmptyDict
    /\ custom_cache = EmptyDict
    /\ now = 0
    /\ qs = NoQS
    /\ ev = NoEv
    /\ settings = EmptyDict
    /\ files = EmptyDict
    /\ heap \in {[i \in {ItemsRef} |-> l] : l \in ManagerLists}
    /\ querysets = <<>>
    /\ get_data_calls = 0

ManagerNext == VirtualGetQueryset \/ ManagedFilter \/ ManagedOrderBy

SpecManager == ManagerInit /\ [][ManagerNext]_vars

(***************************************************************************)
(* Properties of filter, exclude and order_by (SpecQuery).                 *)
(***************************************************************************)
Range(seq) == {seq[i] : i \in 1..Len(seq)}
IndexPerms(n) == {p \in [1..n -> 1..n] : \A i, j \in 1..n : p[i] = p[j] => i = j}

\* The sort key the claim gives an object on one field: the empty string for a
\* None or missing attribute, a string in lower case, any other value itself.
ClaimKey(obj, field) ==
    LET name == field[Len(field)]
    IN  IF name \notin DOMAIN ObjAttrs[obj] \/ ObjAttrs[obj][name].t = "none" THEN PyStr(<<>>)
        ELSE IF ObjAttrs[obj][name].t = "str" THEN PyStr(Lower(ObjAttrs[obj][name].s))
        ELSE ObjAttrs[obj][name]

\* a sorts strictly before b: on the first field their keys differ on, in that
\* field's direction
RECURSIVE LexBefore(_, _, _)
LexBefore(a, b, fields) ==
    IF fields = <<>> THEN FALSE
    ELSE LET f == Head(fields)
             ka == ClaimKey(a, f)
             kb == ClaimKey(b, f)
         IN  IF ka = kb THEN LexBefore(a, b, Tail(fields))
             ELSE IF ~Comparable(ka, kb) THEN FALSE
             ELSE IF Head(f) = "-" THEN PyLt(kb, ka) ELSE PyLt(ka, kb)

\* out is recv sorted on fields, elements equal on every key in recv's order
IsStableSort(recv, out, fields) ==
    /\ Len(out) = Len(recv)
    /\ \E p \in IndexPerms(Len(recv)) :
          /\ \A k \in 1..Len(recv) : out[k] = recv[p[k]]
          /\ \A i, j \in 1..Len(recv) :
                i < j => /\ ~LexBefore(out[j], out[i], fields)
                         /\ (~LexBefore(out[i], out[j], fields) => p[i] < p[j])

\* C7: order_by(f1..fn) returns, for every result list and field sequence, the
\* receiver's elements sorted on the keys, ties in the receiver's order.
C7_OrderByStableSort ==
    ev.op = "order_by" =>
        /\ ev.ret.exc = "none"
        /\ IsStableSort(qs.results, ev.ret.value.results, ev.fields)

\* What order_by does when no sort raises: it is the stable multi-key sort.
OrderByStableWhenReturned ==
    (ev.op = "order_by" /\ ev.ret.exc = "none") =>
        IsStableSort(qs.results, ev.ret.value.results, ev.fields)

\* the object satisfies every lookup
SatisfiesAll(obj, kwargs) == \A i \in 1..Len(kwargs) : Cond(obj, kwargs[i]) = "T"

\* C8: filter returns exactly the receiver's elements that satisfy every lookup,
\* in the receiver's order, whatever the order the lookups are given in.
C8_FilterConjunction ==
    ev.op = "filter" =>
        /\ ev.ret.exc = "none"
        /\ ev.ret.value.results = SelectSeq(qs.results, LAMBDA obj : SatisfiesAll(obj, ev.kwargs))
        /\ \A p \in IndexPerms(Len(ev.kwargs)) :
              filter(qs, [i \in 1..Len(ev.kwargs) |-> ev.kwargs[p[i]]]) = ev.ret

\* What filter does when it returns: the conjunction, in the receiver's order.
FilterConjunctionWhenReturned ==
    (ev.op = "filter" /\ ev.ret.exc = "none") =>
        ev.ret.value.results = SelectSeq(qs.results, LAMBDA obj : SatisfiesAll(obj, ev.kwargs))

\* C9: filter(field__exact=v) and filter(field=v) return the same elements.
C9_ExactTwoSpellings ==
    (ev.op = "filter" /\ Len(ev.kwargs) = 1 /\ ev.kwargs[1].type = "exact") =>
        ev.ret = filter(qs, << [ev.kwargs[1] EXCEPT !.type = ""] >>)

\* recv at the positions in I, in order
AtPositions(recv, I) ==
    LET F[i \in 0..Len(recv)] ==
            IF i = 0 THEN <<>>
            ELSE IF i \in I THEN Append(F[i - 1], recv[i]) ELSE F[i - 1]
    IN  F[Len(recv)]

\* C10: exclude(**kw) returns the receiver's elements that filter(**kw) does not,
\* in the receiver's order: the two split the receiver's positions, share no
\* object, and their counts add up to the receiver's; exclude raises exactly
\* when filter does.
C10_ExcludeComplement ==
    ev.op = "exclude" =>
        LET f == filter(qs, ev.kwargs)
        IN  /\ (ev.ret.exc = "none") <=> (f.exc = "none")
            /\ ev.ret.exc = "none" =>
                  /\ \E I \in SUBSET (1..Len(qs.results)) :
                        /\ f.value.results = AtPositions(qs.results, I)
                        /\ ev.ret.value.results =
                              AtPositions(qs.results, (1..Len(qs.results)) \ I)
                  /\ Range(f.value.results) \cap Range(ev.ret.value.results) = {}
                  /\ Len(f.value.results) + Len(ev.ret.value.results) = Len(qs.results)

\* exclude on a receiver that holds one object twice, which the lookups match
C10_Witness ==
    /\ ev.op = "exclude"
    /\ ev.ret.exc = "none"
    /\ Len(qs.results) = 2 /\ qs.results[1] = qs.results[2]
    /\ ev.ret.value.results = <<>>

\* the positions of recv whose object has every given attribute equal to the
\* given value
Matching(recv, kwargs) ==
    {i \in 1..Len(recv) :
        \A k \in 1..Len(kwargs) :
            /\ kwargs[k].field \in DOMAIN ObjAttrs[recv[i]]
            /\ PyEq(ObjAttrs[recv[i]][kwargs[k].field], kwargs[k].value)}

\* every object of recv has every attribute named in kwargs
HaveAttributes(recv, kwargs) ==
    \A i \in 1..Len(recv) : \A k \in 1..Len(kwargs) :
        kwargs[k].field \in DOMAIN ObjAttrs[recv[i]]

\* the three outcomes of get, by the number of matching elements
GetThreeOutcomes(recv, kwargs, ret) ==
    LET M == Matching(recv, kwargs)
    IN  /\ Cardinality(M) = 1 => (ret.exc = "none" /\ \A i \in M : ret.obj = recv[i])
        /\ M = {} => ret.exc = "ObjectDoesNotExist"
        /\ Cardinality(M) > 1 =>
              (ret.exc = "MultipleObjectsReturned" /\ ret.reported = Cardinality(M))

\* C11: get returns the element when exactly one element has every given
\* attribute equal to the given value, raises ObjectDoesNotExist when none has,
\* and MultipleObjectsReturned reporting the number of matches when more than
\* one has; the receiver's results are unchanged; and on objects that have the
\* attributes get succeeds exactly when filter with the same keywords returns
\* one element.
C11_Get ==
    [][(ev.op = "none" /\ ev'.op = "get") =>
          /\ qs'.results = qs.results
          /\ GetThreeOutcomes(qs.results, ev'.kwargs, ev'.ret)
          /\ HaveAttributes(qs.results, ev'.kwargs) =>
                ((ev'.ret.exc = "none") <=>
                    (/\ filter(qs, ev'.kwargs).exc = "none"
                     /\ Len(filter(qs, ev'.kwargs).value.results) = 1))]_vars

\* What get does on a receiver whose objects all have the attributes named: the
\* three outcomes, the receiver unchanged, and the agreement with filter.
GetWhenAttributesPresent ==
    [][(ev.op = "none" /\ ev'.op = "get" /\ HaveAttributes(qs.results, ev'.kwargs)) =>
          /\ qs'.results = qs.results
          /\ GetThreeOutcomes(qs.results, ev'.kwargs, ev'.ret)
          /\ (ev'.ret.exc = "none") <=>
                (/\ filter(qs, ev'.kwargs).exc = "none"
                 /\ Len(filter(qs, ev'.kwargs).value.results) = 1)]_vars

\* C12: iterating qs.reverse() yields the elements of iterating qs in the
\* opposite order, for every queryset a chain of operations reaches, and
\* qs.reverse().reverse() iterates in the order of qs.
C12_Reverse ==
    ev.op = "reverse" =>
        /\ ev.ret.exc = "none"
        /\ __iter__(ev.ret.value) = Returned(Reversed(__iter__(qs).results))
        /\ __iter__(reverse(ev.ret.value).value) = __iter__(qs)

\* What reverse does: the result list reversed; so iteration is reversed on a
\* queryset whose query has no ordering, and reversing twice gives the
\* order of the receiver.
ReverseOfResults ==
    ev.op = "reverse" =>
        /\ ev.ret.exc = "none"
        /\ ev.ret.value.results = Reversed(qs.results)
        /\ qs.order_by = <<>> =>
              __iter__(ev.ret.value) = Returned(Reversed(__iter__(qs).results))
        /\ __iter__(reverse(ev.ret.value).value) = __iter__(qs)

(***************************************************************************)
(* Properties of chains on the querysets with a data source (SpecChain).   *)
(***************************************************************************)
\* the source configuration of a queryset
SourceConfig(q) ==
    CASE q.cls = "ConfigQuerySet" -> <<q.setting_name>>
      [] q.cls = "JSONQuerySet" -> <<q.json_source, q.json_path>>
      [] q.cls = "APIQuerySet" -> <<q.fetch_func, q.cache_timeout>>
      [] q.cls = "CachedQuerySet" -> <<q.fetch_func, q.cache_key, q.cache_timeout>>
      [] OTHER -> <<>>

\* reload() / refresh() on a and on b load the same results
LoadSame(a, b) ==
    CASE a.cls = "ConfigQuerySet" ->
            ConfigQuerySet_reload(a, settings) = ConfigQuerySet_reload(b, settings)
      [] a.cls = "JSONQuerySet" ->
            JSONQuerySet_reload(a, files) = JSONQuerySet_reload(b, files)
      [] a.cls = "APIQuerySet" ->
            \A outcome \in FetchOutcomes :
                APIQuerySet_refresh(a, outcome).value.results
                    = APIQuerySet_refresh(b, outcome).value.results
      [] a.cls = "CachedQuerySet" ->
            \A outcome \in FetchOutcomes :
                refresh(a, memory_cache, custom_cache, now, outcome).value.results
                    = refresh(b, memory_cache, custom_cache, now, outcome).value.results
      [] OTHER -> TRUE

\* C13: on a CachedQuerySet, APIQuerySet, ConfigQuerySet or JSONQuerySet each of
\* filter, exclude, order_by, reverse, distinct, none and slicing returns a
\* queryset of the same class with the receiver's source configuration, on
\* which reload() / refresh() loads what it loads on the receiver.
C13_ChainKeepsSource ==
    ev.op \in Derivations =>
        /\ ev.ret.exc = "none"
        /\ ev.ret.value.cls = qs.cls
        /\ SourceConfig(ev.ret.value) = SourceConfig(qs)
        /\ LoadSame(ev.ret.value, qs)

\* What the calls return instead: on a CachedQuerySet they raise; on the other
\* three the queryset returned has the cloned Query in the place of its source
\* and the defaults for the rest.
ChainPutsQueryForSource ==
    ev.op \in Derivations =>
        /\ qs.cls = "CachedQuerySet" => ev.ret.exc # "none"
        /\ (qs.cls = "ConfigQuerySet" /\ ev.ret.exc = "none") =>
              ev.ret.value.setting_name.t = "Query"
        /\ (qs.cls = "JSONQuerySet" /\ ev.ret.exc = "none") =>
              (ev.ret.value.json_source.t = "Query" /\ ev.ret.value.json_path = PyNone)
        /\ (qs.cls = "APIQuerySet" /\ ev.ret.exc = "none") =>
              /\ ev.ret.value.fetch_func.t = "Query"
              /\ ev.ret.value.cache_timeout = DefaultTimeout

(***************************************************************************)
(* Properties of JSON loading (SpecJSON).                                  *)
(***************************************************************************)
\* the document a source stands for, None when it stands for none: the dict,
\* the JSON in the file at the path, or the JSON in the string; an empty
\* source (None, '', {}) is no source
DocumentOf(json_source, fs) ==
    IF ~Truthy(json_source) THEN PyNone
    ELSE IF json_source.t = "dict" THEN json_source
    ELSE IF json_source.t \notin {"str", "Path"} THEN PyNone
    ELSE IF json_source.s \in DOMAIN fs THEN loads(fs[json_source.s]).value
    ELSE IF json_source.t = "str" THEN loads(json_source.s).value
    ELSE PyNone

\* the value at the parts of a path, descending dict keys and numeric list
\* indices; None when a step cannot be taken
RECURSIVE Descend(_, _)
Descend(v, parts) ==
    IF parts = <<>> THEN v
    ELSE IF v.t = "dict" THEN Descend(DictGet(v, Head(parts)), Tail(parts))
    ELSE IF v.t = "list" /\ isdigit(Head(parts)) /\ ToInt(Head(parts)) < Len(v.s)
         THEN Descend(v.s[ToInt(Head(parts)) + 1], Tail(parts))
         ELSE PyNone

\* a list as it is, a dict as a one-element list, anything else as no element
ListFor(v) == IF v.t = "list" THEN v.s ELSE IF v.t = "dict" THEN <<v>> ELSE <<>>

\* the list the claim has for a source and a path
LoadedList(json_source, json_path, fs) ==
    IF json_path.t = "str" /\ json_path.s # <<>>
    THEN ListFor(Descend(DocumentOf(json_source, fs), Split(json_path.s)))
    ELSE ListFor(DocumentOf(json_source, fs))

\* C14: loading never raises and yields the document, or the value at
\* json_path, when it is a list, a one-element list when it is a dict, and an
\* empty list otherwise: invalid JSON, a missing key, a non-numeric step into
\* a list, a list index out of range.
C14_JSONLoading ==
    /\ ev.op = "json" =>
          /\ ev.ret.exc = "none"
          /\ ev.ret.value.results = LoadedList(ev.json_source, ev.json_path, files)
    /\ (ev.op = "reload" /\ ev.receiver.cls = "JSONQuerySet") =>
          /\ ev.ret.exc = "none"
          /\ ev.ret.value.results
                = LoadedList(ev.receiver.json_source, ev.receiver.json_path, files)

\* a step of the path indexes a list beyond its end
RECURSIVE IndexOutOfRange(_, _)
IndexOutOfRange(v, parts) ==
    /\ parts # <<>>
    /\ IF v.t = "dict" THEN IndexOutOfRange(DictGet(v, Head(parts)), Tail(parts))
       ELSE IF v.t = "list" /\ isdigit(Head(parts))
            THEN \/ ToInt(Head(parts)) >= Len(v.s)
                 \/ IndexOutOfRange(v.s[ToInt(Head(parts)) + 1], Tail(parts))
            ELSE FALSE

\* What loading does: IndexError for a list index out of range, and otherwise
\* the list above.
JSONLoadingButIndexError ==
    ev.op = "json" =>
        LET doc == DocumentOf(ev.json_source, files)
            stepsOut == /\ ev.json_path.t = "str" /\ ev.json_path.s # <<>>
                        /\ IndexOutOfRange(doc, Split(ev.json_path.s))
        IN  /\ (ev.ret.exc = "IndexError") <=> stepsOut
            /\ ev.ret.exc \in {"none", "IndexError"}
            /\ ev.ret.exc = "none" =>
                  ev.ret.value.results = LoadedList(ev.json_source, ev.json_path, files)

(***************************************************************************)
(* Properties of loading from settings (SpecConfig).                       *)
(***************************************************************************)
\* the list a setting maps to: nothing for an absent or None setting, the
\* elements of a list or tuple, one {'key': k, 'value': v} per item of a dict,
\* and the value alone otherwise
SettingList(name, sett) ==
    IF name \notin DOMAIN sett THEN <<>>
    ELSE LET v == sett[name]
         IN  CASE v.t = "none" -> <<>>
               [] v.t \in {"list", "tuple"} -> v.s
               [] v.t = "dict" ->
                     [i \in 1..Len(v.s) |->
                         PyDict(<< <<KeyStr, v.s[i][1]>>, <<ValueStr, v.s[i][2]>> >>)]
               [] OTHER -> <<v>>

\* a setting_name is given: a non-empty string
Named(setting_name) == setting_name.t = "str" /\ setting_name.s # <<>>

\* the constructor loads the setting when it is given a name and no data
ConfigLoads ==
    (ev.op = "config" /\ ~ev.data.given /\ Named(ev.setting_name)) =>
        /\ ev.ret.exc = "none"
        /\ ev.ret.value.results = SettingList(ev.setting_name.s, settings)
        /\ ev.ret.value.setting_name = ev.setting_name

\* reload() with a setting_name loads the setting as it is now
ConfigReloads ==
    (ev.op = "reload" /\ ev.receiver.cls = "ConfigQuerySet"
        /\ Named(ev.receiver.setting_name)) =>
        /\ ev.ret.exc = "none"
        /\ ev.ret.value.results = SettingList(ev.receiver.setting_name.s, settings)
        /\ ev.ret.value.setting_name = ev.receiver.setting_name

\* C15: the constructor maps the setting to a list; reload() returns a new
\* queryset with the setting's value at the time of the call; and reload()
\* without a setting_name returns a clone of the receiver.
C15_ConfigLoading ==
    /\ ConfigLoads
    /\ ConfigReloads
    /\ (ev.op = "reload" /\ ev.receiver.cls = "ConfigQuerySet"
           /\ ~Truthy(ev.receiver.setting_name)) =>
          (ev.ret.exc = "none" /\ ev.ret.value = ev.receiver)

\* What holds: the loading and the reloading by name, and that reload()
\* without a setting_name returns a ConfigQuerySet with the receiver's results,
\* which has the cloned Query for its setting_name.
ConfigLoadingButClone ==
    /\ ConfigLoads
    /\ ConfigReloads
    /\ (ev.op = "reload" /\ ev.receiver.cls = "ConfigQuerySet"
           /\ ~Truthy(ev.receiver.setting_name)) =>
          /\ ev.ret.exc = "none"
          /\ ev.ret.value.cls = "ConfigQuerySet"
          /\ ev.ret.value.results = ev.receiver.results
          /\ ev.ret.value.setting_name.t = "Query"

(***************************************************************************)
(* Properties of the manager (SpecManager).                                *)
(***************************************************************************)
\* the queryset the last get_queryset() call returned
Newest(qsets) == qsets[Len(qsets)]

\* no two querysets hold the same list, and none holds the manager's own
NoSharedList(qsets) ==
    /\ \A i, j \in 1..Len(qsets) : i # j => qsets[i].ref # qsets[j].ref
    /\ ItemsRef \notin Refs(qsets)

\* every queryset but the i-th is what it was, and so is its list
OthersUntouched(i) ==
    \A j \in 1..Len(querysets) :
        j # i => /\ querysets'[j] = querysets[j]
                 /\ querysets[j].ref \in DOMAIN heap'
                 /\ heap'[querysets[j].ref] = heap[querysets[j].ref]

\* C16: every get_queryset() call of a VirtualManager calls get_data() once
\* and returns a new queryset of queryset_class that holds exactly the items
\* get_data() returned, in order (none for the default get_data()); the
\* querysets of two calls share no result list, so that filter() or
\* order_by() on one leaves every other queryset and its list as they were.
C16_ManagerFreshQueryset ==
    [][/\ ev'.op = "virtual_get_queryset" =>
            /\ get_data_calls' = get_data_calls + 1
            /\ Len(querysets') = Len(querysets) + 1
            /\ Newest(querysets').cls = queryset_class
            /\ Newest(querysets').order_by = <<>>
            /\ heap'[Newest(querysets').ref] = ev'.items
            /\ ev'.kind = "default" => heap'[Newest(querysets').ref] = <<>>
            /\ ev'.kind = "stored" => ev'.items = heap[ItemsRef]
            /\ Newest(querysets').ref \notin DOMAIN heap
            /\ OthersUntouched(Len(querysets'))
            /\ heap'[ItemsRef] = heap[ItemsRef]
            /\ NoSharedList(querysets')
       /\ ev'.op \in {"managed_filter", "managed_order_by"} =>
            /\ get_data_calls' = get_data_calls
            /\ OthersUntouched(ev'.i)
            /\ heap'[ItemsRef] = heap[ItemsRef]
            /\ NoSharedList(querysets')]_vars

\* C16 (witness): two querysets came from two calls, the second holds the
\* manager's own two items in their order, and order_by() has just put the
\* same two items of the first into the other order.
C16_Witness ==
    /\ Len(querysets) = 2
    /\ get_data_calls = 2
    /\ ev.op = "managed_order_by"
    /\ ev.i = 1
    /\ Len(heap[querysets[1].ref]) = 2
    /\ heap[querysets[1].ref] = Reversed(heap[ItemsRef])
    /\ heap[querysets[1].ref] # heap[ItemsRef]
    /\ heap[querysets[2].ref] = heap[ItemsRef]

(***************************************************************************)
(* Properties of the TTL cache (Spec).                                     *)
(***************************************************************************)
\* the step is a construction that went through _get_cached_or_fetch
Constructed == ev'.op \in {"construct", "get_queryset"} /\ ev'.exc = "none" /\ ~ev'.data_given

\* the dict the queryset made by the step uses, before and after the step
BackendBefore == Backend(qs'.cache_backend, memory_cache, custom_cache)
BackendAfter == Backend(qs'.cache_backend, memory_cache', custom_cache')

\* C1: a construction with data=None that finds an entry for its key younger
\* than cache_timeout does not call fetch_func, holds the stored data and leaves
\* both dicts as they are; so a construction that does fetch found no entry or
\* one at least cache_timeout old.
C1_TTLHit ==
    [][Constructed =>
        /\ (/\ qs'.cache_key \in DOMAIN BackendBefore
            /\ now - BackendBefore[qs'.cache_key].ts < qs'.cache_timeout)
           => /\ ev'.fetch_calls = 0
              /\ qs'.results = BackendBefore[qs'.cache_key].data
              /\ memory_cache' = memory_cache
              /\ custom_cache' = custom_cache
        /\ (ev'.fetch_calls > 0 /\ qs'.cache_key \in DOMAIN BackendBefore)
           => now - BackendBefore[qs'.cache_key].ts >= qs'.cache_timeout
      ]_vars

\* a construction some time after the entry was stored, served from the cache
C1_Witness ==
    /\ ev.op = "get_queryset" /\ ev.exc = "none"
    /\ ev.pre = "fresh" /\ ev.fetch_calls = 0
    /\ now > memory_cache[qs.cache_key].ts
    /\ qs.results = memory_cache[qs.cache_key].data

\* C2: a construction with data=None that finds no entry, or one whose age is at
\* least cache_timeout, calls fetch_func once; when that returns, the queryset
\* holds the fetched data (wrapped in a list if it is not one) and the entry of
\* the key is (that list, now); nothing else in the dicts changes.
C2_TTLMiss ==
    [][(/\ Constructed
        /\ qs'.fetch_func # "None"
        /\ \/ qs'.cache_key \notin DOMAIN BackendBefore
           \/ now - BackendBefore[qs'.cache_key].ts >= qs'.cache_timeout)
       => /\ ev'.fetch_calls = 1
          /\ ev'.outcome.kind # "raise" =>
                LET fetched == IF ev'.outcome.kind = "list" THEN ev'.outcome.list
                               ELSE <<ev'.outcome.value>>
                IN  /\ qs'.results = fetched
                    /\ BackendAfter = DictSet(BackendBefore, qs'.cache_key,
                                              [data |-> fetched, ts |-> now])
                    /\ qs'.cache_backend = "memory" => custom_cache' = custom_cache
                    /\ qs'.cache_backend = "custom" => memory_cache' = memory_cache
      ]_vars

\* an entry exactly cache_timeout old was fetched again, the result not a list
C2_Witness ==
    /\ ev.op = "construct" /\ ev.exc = "none" /\ ~ev.data_given
    /\ ev.pre = "expired" /\ ev.fetch_calls = 1 /\ ev.outcome.kind = "value"
    /\ now = qs.cache_timeout
    /\ Backend(qs.cache_backend, memory_cache, custom_cache)[qs.cache_key].ts = now

\* C3: when fetch_func raises during a construction with data=None, nothing is
\* raised to the caller and both dicts stay as they are; the queryset holds the
\* stale data of the key's entry, or nothing when there is no entry.
C3_FetchFailure ==
    [][(ev'.op \in {"construct", "get_queryset"} /\ ~ev'.data_given
            /\ ev'.outcome.kind = "raise")
       => /\ ev'.exc = "none"
          /\ memory_cache' = memory_cache
          /\ custom_cache' = custom_cache
          /\ qs'.results = IF qs'.cache_key \in DOMAIN BackendBefore
                           THEN BackendBefore[qs'.cache_key].data ELSE <<>>
      ]_vars

\* fetch_func raised over an expired entry, whose data the queryset got
C3_Witness ==
    /\ ev.op = "construct" /\ ev.exc = "none"
    /\ ev.outcome.kind = "raise" /\ ev.pre = "expired"
    /\ qs.results # <<>>
    /\ qs.results = Backend(qs.cache_backend, memory_cache, custom_cache)[qs.cache_key].data

\* C4: refresh() calls fetch_func once whatever the cache holds; when the call
\* returns, the queryset returned holds the fetched data and the entry of the
\* key is (that data, now).
C4_RefreshBypassesCache ==
    (ev.op = "refresh" /\ qs.fetch_func # "None") =>
        /\ ev.exc = "none"
        /\ ev.fetch_calls = 1
        /\ ev.outcome.kind # "raise" =>
              LET fetched == IF ev.outcome.kind = "list" THEN ev.outcome.list
                             ELSE <<ev.outcome.value>>
                  backend == Backend(qs.cache_backend, memory_cache, custom_cache)
              IN  /\ qs.results = fetched
                  /\ qs.cache_key \in DOMAIN backend
                  /\ backend[qs.cache_key] = [data |-> fetched, ts |-> now]

\* refresh() over an entry that was still fresh
C4_Witness ==
    /\ ev.op = "refresh" /\ ev.pre = "fresh" /\ ev.fetch_calls = 1
    /\ ev.outcome.kind = "list"
    /\ now > 0
    /\ qs.results = ev.outcome.list

C6_KeyAutoGenerated ==
    (ev.op \in {"construct", "get_queryset"} /\ ev.key_arg = <<>>) =>
        /\ ev.exc = "none"
        /\ qs.cache_key = IF qs.fetch_func # "None"
                          THEN <<"Item", "_", md5_8(qs.fetch_func)>> ELSE <<"Item">>

====
